---- MODULE Spec2Model ----
(***************************************************************************)
(* Model of the iRail ingestion pipeline of azure_function/function_app.py *)
(* : the storage manager (DatabaseManager), and the batch collector        *)
(* (manual_data_collection and automated_irail_data_collection).           *)
(*                                                                         *)
(* Python values are tagged records [t, v]; a Python str is the sequence   *)
(* of its characters, a Python dict is a function from its keys.           *)
(***************************************************************************)
EXTENDS Integers, Sequences, FiniteSets, TLC

\* ------------------------------------------------------------------ bounds
\* Longest station list a run iterates over.
MaxStations == 2
\* Number of storage-manager calls in a behaviour of SpecStore.
MaxStoreOps == 2
\* the caller threads of the session pool
MaxThreads == 2
\* how often the clock moves on
MaxTicks == 2

\* ------------------------------------------------------- Python values
PyStr(s) == [t |-> "str", v |-> s]
PyInt(n) == [t |-> "int", v |-> n]
PyBool(b) == [t |-> "bool", v |-> b]
PyDict(f) == [t |-> "dict", v |-> f]
PyList(l) == [t |-> "list", v |-> l]
PyDatetime(epoch) == [t |-> "datetime", v |-> epoch]
PyNone == [t |-> "null", v |-> 0]
EmptyStr == PyStr(<<>>)
EmptyDict == PyDict(<<>>)
EmptyList == PyList(<<>>)

IsDict(x) == x.t = "dict"
IsList(x) == x.t = "list"

\* bool(x)
Truthy(x) ==
    CASE x.t = "str" -> Len(x.v) > 0
      [] x.t = "int" -> x.v # 0
      [] x.t = "bool" -> x.v
      [] x.t = "dict" -> DOMAIN x.v # {}
      [] x.t = "list" -> Len(x.v) > 0
      [] x.t = "datetime" -> TRUE
      [] OTHER -> FALSE

\* len(x) is defined: it raises TypeError for None, a number or a bool.
Sized(x) == x.t \in {"str", "list", "dict"}

\* len(x) of a sized value: a dict counts its keys
PyLen(x) ==
    CASE x.t = "dict" -> Cardinality(DOMAIN x.v)
      [] OTHER -> Len(x.v)

\* d.get(key, default) on a dict
Get(d, key, default) == IF key \in DOMAIN d.v THEN d.v[key] ELSE default

\* a or b
PyOr(a, b) == IF Truthy(a) THEN a ELSE b

\* a == b for the values compared in the code (a str against a str literal)
PyEq(a, b) == a.t = b.t /\ a.v = b.v

Digits == {"0", "1", "2", "3", "4", "5", "6", "7", "8", "9"}
DigitVal(c) ==
    CASE c = "0" -> 0 [] c = "1" -> 1 [] c = "2" -> 2 [] c = "3" -> 3
      [] c = "4" -> 4 [] c = "5" -> 5 [] c = "6" -> 6 [] c = "7" -> 7
      [] c = "8" -> 8 [] c = "9" -> 9

AllDigits(s) == Len(s) > 0 /\ \A i \in 1..Len(s) : s[i] \in Digits

RECURSIVE DecimalValue(_)
DecimalValue(s) ==
    IF s = <<>> THEN 0
    ELSE 10 * DecimalValue(SubSeq(s, 1, Len(s) - 1)) + DigitVal(s[Len(s)])

\* int(x): [ok, n]; ok = FALSE stands for ValueError / TypeError
IntOf(x) ==
    CASE x.t = "int" -> [ok |-> TRUE, n |-> x.v]
      [] x.t = "bool" -> [ok |-> TRUE, n |-> IF x.v THEN 1 ELSE 0]
      [] x.t = "str" ->
            IF AllDigits(x.v) THEN [ok |-> TRUE, n |-> DecimalValue(x.v)]
            ELSE IF Len(x.v) > 1 /\ x.v[1] = "-" /\ AllDigits(Tail(x.v))
                 THEN [ok |-> TRUE, n |-> 0 - DecimalValue(Tail(x.v))]
            ELSE IF Len(x.v) > 1 /\ x.v[1] = "+" /\ AllDigits(Tail(x.v))
                 THEN [ok |-> TRUE, n |-> DecimalValue(Tail(x.v))]
            ELSE [ok |-> FALSE, n |-> 0]
      [] OTHER -> [ok |-> FALSE, n |-> 0]

RECURSIVE DecimalString(_)
DecimalString(n) ==
    IF n < 10 THEN <<CHOOSE c \in Digits : DigitVal(c) = n>>
    ELSE Append(DecimalString(n \div 10), CHOOSE c \in Digits : DigitVal(c) = n % 10)

\* str(x) for the values the code applies it to (str, int, None)
StrOf(x) ==
    CASE x.t = "str" -> x
      [] x.t = "int" ->
            IF x.v < 0 THEN PyStr(<<"-">> \o DecimalString(0 - x.v))
            ELSE PyStr(DecimalString(x.v))
      [] x.t = "null" -> PyStr(<<"N", "o", "n", "e">>)

\* s.split('/')[-1]: the characters after the last '/'
RECURSIVE LastSegment(_)
LastSegment(s) ==
    IF s = <<>> \/ s[Len(s)] = "/" THEN <<>>
    ELSE Append(LastSegment(SubSeq(s, 1, Len(s) - 1)), s[Len(s)])

\* re.search(r'/(\d+)$', uri): [ok, group]
MatchOf(s, seg) ==
    IF Len(seg) < Len(s) /\ AllDigits(seg)
    THEN [ok |-> TRUE, group |-> seg]
    ELSE [ok |-> FALSE, group |-> <<>>]

TrailingDigits(s) == MatchOf(s, LastSegment(s))

\* ------------------------------------------------------ the SQL store
\* A value pyodbc can bind to a '?' parameter.
Bindable(x) == x.t \in {"str", "int", "bool", "null", "datetime"}

DepartureColumns ==
    {"station_uri", "station_name", "vehicle_uri", "vehicle_name", "platform",
     "scheduled_time", "actual_time", "delay_seconds", "is_canceled",
     "departure_connection", "occupancy_level"}

\* UNIQUE(station_uri, vehicle_uri, scheduled_time) of the departures table
SameTriple(a, b) ==
    /\ a.station_uri = b.station_uri
    /\ a.vehicle_uri = b.vehicle_uri
    /\ a.scheduled_time = b.scheduled_time

UniqueViolation(tbl, row) == \E i \in 1..Len(tbl) : SameTriple(tbl[i], row)

\* ExecInsertDeparture on a table created without the UNIQUE constraint.
ExecInsertDepartureNoConstraint(tbl, row) ==
    IF \/ \E c \in DepartureColumns : ~Bindable(row[c])
       \/ row.station_uri.t = "null"
    THEN [ok |-> FALSE, tbl |-> tbl]
    ELSE [ok |-> TRUE, tbl |-> Append(tbl, row)]

\* cursor.execute(insert_sql, ...) on departures: [ok, tbl]; ok = FALSE is
\* the statement raising (a parameter that cannot be bound, station_uri
\* NOT NULL, the uniqueness constraint), and the table is as before.
ExecInsertDeparture(tbl, row) ==
    IF \/ \E c \in DepartureColumns : ~Bindable(row[c])
       \/ row.station_uri.t = "null"
       \/ UniqueViolation(tbl, row)
    THEN [ok |-> FALSE, tbl |-> tbl]
    ELSE [ok |-> TRUE, tbl |-> Append(tbl, row)]

\* The fallback of "try: int(x) except: 0" applied to the result of int(x).
OkOrZero(parsed) == IF parsed.ok THEN parsed.n ELSE 0

\* int(x) falling back to 0 on ValueError / TypeError
IntOrZero(x) == OkOrZero(IntOf(x))

\* "int(x) if x else 0", falling back to 0 when int raises
TruthyIntOrZero(x) == IF Truthy(x) THEN IntOrZero(x) ELSE 0

\* "x.get(key, '') if isinstance(x, dict) else ''"
DictGetOrEmpty(x, key) == IF IsDict(x) THEN Get(x, key, EmptyStr) ELSE EmptyStr

\* "str(x) if x else ''"
TruthyStrOrEmpty(x) == IF Truthy(x) THEN StrOf(x) ELSE EmptyStr

\* TimeOrNone without the "if timestamp" test: a datetime for every timestamp.
TimeOrNoneAlways(timestamp, delay) == PyDatetime(timestamp + delay)

\* datetime.fromtimestamp(timestamp + delay) if timestamp else None
TimeOrNone(timestamp, delay) ==
    IF timestamp # 0 THEN PyDatetime(timestamp + delay) ELSE PyNone

\* departure.get('canceled', '0') == '1'
IsCanceled(departure) ==
    PyBool(PyEq(Get(departure, "canceled", PyStr(<<"0">>)), PyStr(<<"1">>)))

\* The parameter tuple of the INSERT INTO departures statement.
DepartureRow(station_uri, station_name, vehicle_uri, vehicle_name, platform, timestamp, delay, is_canceled, departure_connection, occupancy_level) ==
    [station_uri |-> station_uri,
     station_name |-> station_name,
     vehicle_uri |-> vehicle_uri,
     vehicle_name |-> vehicle_name,
     platform |-> platform,
     scheduled_time |-> TimeOrNone(timestamp, 0),
     actual_time |-> TimeOrNone(timestamp, delay),
     delay_seconds |-> PyInt(delay),
     is_canceled |-> is_canceled,
     departure_connection |-> departure_connection,
     occupancy_level |-> occupancy_level]

\* The row the first body of insert_departures builds for one departure.
FirstPassRow(departure, station_uri, station_name) ==
    DepartureRow(station_uri, station_name,
                 DictGetOrEmpty(Get(departure, "vehicle", EmptyDict), "@id"),
                 DictGetOrEmpty(Get(departure, "vehicle", EmptyDict), "name"),
                 StrOf(Get(departure, "platform", EmptyStr)),
                 TruthyIntOrZero(Get(departure, "time", PyInt(0))),
                 TruthyIntOrZero(Get(departure, "delay", PyInt(0))),
                 IsCanceled(departure),
                 StrOf(Get(departure, "departureConnection", EmptyStr)),
                 PyNone)

\* vehicle_name of the second body: shortname or name or the raw vehicle
\* string when vehicleinfo is a dict, else the raw vehicle string.
VehicleName(vehicle_info, vehicle_raw) ==
    IF IsDict(vehicle_info)
    THEN PyOr(PyOr(Get(vehicle_info, "shortname", PyNone),
                   Get(vehicle_info, "name", PyNone)), vehicle_raw)
    ELSE vehicle_raw

\* "occupancy_id.split('/')[-1] if occupancy_id else None"
SegmentOrNone(occupancy_id) ==
    IF Truthy(occupancy_id) THEN PyStr(LastSegment(occupancy_id.v)) ELSE PyNone

\* occupancy_level of the second body.
OccupancyLevel(occupancy) ==
    IF IsDict(occupancy) THEN SegmentOrNone(Get(occupancy, "@id", EmptyStr)) ELSE PyNone

\* The row the second body of insert_departures builds for one departure.
SecondPassRow(departure, station_uri, station_name) ==
    DepartureRow(station_uri, station_name,
                 DictGetOrEmpty(Get(departure, "vehicleinfo", EmptyDict), "@id"),
                 VehicleName(Get(departure, "vehicleinfo", EmptyDict),
                             Get(departure, "vehicle", EmptyStr)),
                 TruthyStrOrEmpty(Get(departure, "platform", PyNone)),
                 IntOrZero(Get(departure, "time", PyInt(0))),
                 IntOrZero(Get(departure, "delay", PyInt(0))),
                 IsCanceled(departure),
                 TruthyStrOrEmpty(Get(departure, "departureConnection", PyNone)),
                 OccupancyLevel(Get(departure, "occupancy", EmptyDict)))

\* The loop's bookkeeping after one cursor.execute: acc = [tbl, executes,
\* inserted], the table, the statements issued and inserted_count.
AfterExecute(acc, res) ==
    [tbl |-> res.tbl,
     executes |-> acc.executes + 1,
     inserted |-> IF res.ok THEN acc.inserted + 1 ELSE acc.inserted]

\* The row either body builds.
PassRow(departure, pass, station_uri, station_name) ==
    IF pass = 1 THEN FirstPassRow(departure, station_uri, station_name)
    ELSE SecondPassRow(departure, station_uri, station_name)

\* One iteration of "for departure in departures: try: ... except: continue":
\* a departure that is no dict is skipped, a statement that raises is skipped.
InsertOne(acc, departure, pass, station_uri, station_name) ==
    IF ~IsDict(departure) THEN acc
    ELSE AfterExecute(acc, ExecInsertDeparture(acc.tbl,
                               PassRow(departure, pass, station_uri, station_name)))

\* DepartureLoop leaving the loop at the first departure that is no dict.
RECURSIVE DepartureLoopBreaking(_, _, _, _, _, _)
DepartureLoopBreaking(acc, departures, i, pass, station_uri, station_name) ==
    IF i > Len(departures) \/ ~IsDict(departures[i]) THEN acc
    ELSE DepartureLoopBreaking(InsertOne(acc, departures[i], pass, station_uri, station_name),
                               departures, i + 1, pass, station_uri, station_name)

RECURSIVE DepartureLoop(_, _, _, _, _, _)
DepartureLoop(acc, departures, i, pass, station_uri, station_name) ==
    IF i > Len(departures) THEN acc
    ELSE DepartureLoop(InsertOne(acc, departures[i], pass, station_uri, station_name),
                       departures, i + 1, pass, station_uri, station_name)

\* "if not isinstance(departures, list): departures = [departures]"
AsList(departures) == IF IsList(departures) THEN departures.v ELSE <<departures>>

\* The departure list either body of insert_departures iterates over.
DepartureList(liveboard_data) ==
    AsList(Get(Get(liveboard_data, "departures", EmptyDict), "departure", EmptyList))

\* station_name of the second body when station is no dict.
ScalarStationName(station_info) ==
    IF Truthy(station_info) THEN StrOf(station_info)
    ELSE PyStr(<<"U", "n", "k", "n", "o", "w", "n", " ", "S", "t", "a", "t", "i", "o", "n">>)

\* station_name of either body.
StationName(station_info, pass) ==
    IF IsDict(station_info) THEN Get(station_info, "name", EmptyStr)
    ELSE IF pass = 1 THEN EmptyStr
    ELSE ScalarStationName(station_info)

\* The loop of one body over the liveboard's departures, from acc.
BodyLoop(acc, liveboard_data, pass) ==
    DepartureLoop(acc, DepartureList(liveboard_data), 1, pass,
                  DictGetOrEmpty(Get(liveboard_data, "station", EmptyDict), "@id"),
                  StationName(Get(liveboard_data, "station", EmptyDict), pass))

\* The early returns of insert_departures: no departures section, one that
\* is no dict, or no departures in it.
NothingToInsert(departures_section) ==
    \/ ~Truthy(departures_section)
    \/ ~IsDict(departures_section)
    \/ ~Truthy(Get(departures_section, "departure", EmptyList))

\* The result of a call that ends before its first get_connection.
NoInsert(tbl, raised) ==
    [tbl |-> tbl, raised |-> raised, executes |-> 0, inserted |-> 0,
     commits |-> 0, handles |-> 0]

\* The result of the second body, entered after the first body committed
\* (first: the first loop's bookkeeping; second: the second loop's).
SecondBody(first, second, handle2) ==
    IF ~handle2
    THEN [tbl |-> first.tbl, raised |-> TRUE, executes |-> first.executes,
          inserted |-> first.inserted, commits |-> 1, handles |-> 2]
    ELSE [tbl |-> second.tbl, raised |-> FALSE, executes |-> second.executes,
          inserted |-> first.inserted + second.inserted, commits |-> 2, handles |-> 2]

\* Both bodies, from the first loop's bookkeeping.
AfterFirstBody(first, liveboard_data, handle2) ==
    SecondBody(first, BodyLoop([first EXCEPT !.inserted = 0], liveboard_data, 2), handle2)

\* insert_departures(liveboard_data), on the table tbl; handle1 and handle2
\* tell whether get_connection succeeds in the first and in the second body.
\* The first body ends by falling out of its try block, so the second body
\* (the statements after the except clause) runs after it.
\* Result: [tbl, raised, executes, inserted, commits, handles].
InsertDepartures(tbl, liveboard_data, handle1, handle2) ==
    IF ~IsDict(liveboard_data) THEN NoInsert(tbl, TRUE)
    ELSE IF NothingToInsert(Get(liveboard_data, "departures", EmptyDict))
    THEN NoInsert(tbl, FALSE)
    ELSE IF ~handle1 THEN [NoInsert(tbl, TRUE) EXCEPT !.handles = 1]
    ELSE AfterFirstBody(BodyLoop([tbl |-> tbl, executes |-> 0, inserted |-> 0],
                                 liveboard_data, 1),
                        liveboard_data, handle2)

\* station_id of insert_stations: the digits that end the URI after a '/',
\* else ''.
StationIdOf(uri) ==
    IF Truthy(uri) THEN PyStr(TrailingDigits(uri.v).group) ELSE EmptyStr

\* The processed_station dict insert_stations builds from one feed record.
ProcessedStation(station) ==
    LET uri == Get(station, "@id", EmptyStr)
    IN  [id |-> StationIdOf(uri),
         name |-> Get(station, "name", EmptyStr),
         standardname |-> Get(station, "standardname", EmptyStr),
         locationX |-> Get(station, "locationX", PyNone),
         locationY |-> Get(station, "locationY", PyNone),
         uri |-> uri]

\* The rows of tbl whose id is the given one.
RowsWithId(tbl, id) == {i \in 1..Len(tbl) : tbl[i].id = id}

\* MergeStation as a plain INSERT: the WHEN MATCHED branch is lost.
MergeStationInsertOnly(tbl, source) == Append(tbl, source)

\* One MERGE statement on stations: WHEN MATCHED (target.id = source.id)
\* update the row, WHEN NOT MATCHED insert it.
MergeStation(tbl, source) ==
    IF RowsWithId(tbl, source.id) # {}
    THEN [i \in 1..Len(tbl) |-> IF tbl[i].id = source.id THEN source ELSE tbl[i]]
    ELSE Append(tbl, source)

RECURSIVE MergeLoop(_, _, _)
MergeLoop(tbl, processed_stations, i) ==
    IF i > Len(processed_stations) THEN tbl
    ELSE MergeLoop(MergeStation(tbl, processed_stations[i]), processed_stations, i + 1)

\* The "with self.get_connection()" block of insert_stations: [tbl, raised].
\* A record whose name is None violates name NOT NULL: the statement raises,
\* the call raises with it and nothing is committed.
MergeAll(tbl, processed_stations, handle) ==
    IF ~handle \/ \E i \in 1..Len(processed_stations) : processed_stations[i].name.t = "null"
    THEN [tbl |-> tbl, raised |-> TRUE]
    ELSE [tbl |-> MergeLoop(tbl, processed_stations, 1), raised |-> FALSE]

\* insert_stations(stations_data) on the table tbl.
InsertStations(tbl, stations_data, handle) ==
    MergeAll(tbl, [i \in 1..Len(stations_data) |-> ProcessedStation(stations_data[i])], handle)

\* ------------------------------------------------- feed payloads (inputs)
UriStation1 == <<"h", "/", "1">>
UriStation2 == <<"h", "/", "2">>
UriVehicle2 == <<"v", "/", "2">>

StationObject(uri, name) == PyDict(("@id" :> PyStr(uri)) @@ [name |-> PyStr(name)])

\* A departure as in the feed: a raw vehicle string and no vehicleinfo.
DeparturePlain ==
    PyDict([vehicle |-> PyStr(<<"I", "C", "1">>), time |-> PyStr(<<"6", "0">>),
            delay |-> PyStr(<<"3", "0">>), platform |-> PyStr(<<"3">>),
            canceled |-> PyStr(<<"0">>)])

\* A departure with a vehicleinfo object, canceled, with an occupancy URI.
DepartureInfo ==
    PyDict([vehicle |-> PyStr(<<"I", "C", "2">>),
            vehicleinfo |-> PyDict(("@id" :> PyStr(UriVehicle2))
                                   @@ [shortname |-> PyStr(<<"S", "2">>),
                                       name |-> PyStr(<<"N", "2">>)]),
            time |-> PyStr(<<"9", "0">>), delay |-> PyStr(<<"-", "5">>),
            canceled |-> PyStr(<<"1">>),
            occupancy |-> PyDict("@id" :> PyStr(<<"o", "/", "l", "o", "w">>))])

\* A departure whose time and delay are no numbers.
DepartureNoTime ==
    PyDict([vehicle |-> PyStr(<<"L", "3">>),
            vehicleinfo |-> PyDict("@id" :> PyStr(<<"v", "/", "3">>)),
            time |-> PyStr(<<"x">>), delay |-> PyStr(<<"x">>)])

\* A departure with neither a vehicle string nor a vehicleinfo object.
DepartureBare ==
    PyDict([time |-> PyStr(<<"7", "0">>), delay |-> PyStr(<<"0">>)])

\* The departure of the Brussels-Central scenario.
DepartureScenario ==
    PyDict([vehicle |-> PyStr(<<"B", "E", ".", "N", "M", "B", "S", ".", "I", "C", "5", "3", "8">>),
            time |-> PyStr(<<"1", "7", "0", "0", "0", "0", "0", "0", "0", "0">>),
            delay |-> PyStr(<<"1", "2", "0">>), platform |-> PyStr(<<"3">>),
            canceled |-> PyStr(<<"0">>)])

NameBrusselsCentral ==
    <<"B", "r", "u", "s", "s", "e", "l", "s", "-", "C", "e", "n", "t", "r", "a", "l">>

\* The liveboard bodies the feed answers with.
Liveboard(k) ==
    CASE k = 1 -> PyDict([error |-> PyStr(<<"e">>),
                          station |-> PyDict("@id" :> PyStr(UriStation1)),
                          departures |-> PyDict([departure |-> EmptyList])])
      [] k = 2 -> PyDict([station |-> StationObject(UriStation1, <<"A">>),
                          departures |-> PyDict([departure |-> PyList(<<DeparturePlain>>)])])
      [] k = 3 -> PyDict([station |-> StationObject(UriStation1, <<"A">>),
                          departures |-> PyDict([departure |->
                                            PyList(<<DeparturePlain, DepartureInfo>>)])])
      [] k = 4 -> PyDict([station |-> StationObject(UriStation2, <<"B">>),
                          departures |-> PyDict([departure |-> DepartureInfo])])
      [] k = 5 -> PyDict([station |-> StationObject(UriStation2, <<"B">>),
                          departures |-> PyDict([departure |->
                                            PyList(<<DepartureInfo, PyStr(<<"x">>),
                                                     DepartureNoTime>>)])])
      [] k = 6 -> PyDict([station |-> StationObject(UriStation1, <<"A">>),
                          departures |-> PyList(<<DeparturePlain>>)])
      [] k = 7 -> PyDict([station |-> StationObject(UriStation1, <<"A">>)])
      [] k = 8 -> PyDict([station |-> PyStr(<<"A">>),
                          departures |-> PyDict([departure |-> PyList(<<DepartureNoTime>>)])])
      [] k = 9 -> PyDict([departures |-> PyDict([departure |-> PyList(<<DepartureScenario>>)]),
                          station |-> StationObject(<<"X">>, NameBrusselsCentral)])
      [] k = 10 -> PyDict([station |-> StationObject(UriStation2, <<"B">>),
                           departures |-> PyDict([departure |->
                                             PyList(<<DepartureBare, DepartureNoTime>>)])])
      [] k = 11 -> PyDict([station |-> StationObject(UriStation1, <<"A">>),
                           departures |-> PyDict([departure |-> PyNone])])

LiveboardIds == 1..11

\* The station records the feed answers with.
StationRecord(k) ==
    CASE k = 1 -> StationObject(UriStation1, <<"A">>)
      [] k = 2 -> StationObject(UriStation1, <<"B">>)
      [] k = 3 -> StationObject(UriStation2, <<"C">>)
      [] k = 4 -> StationObject(<<"h", "/", "x">>, <<"D">>)
      [] k = 5 -> PyDict([name |-> PyStr(<<"E">>)])

StationRecordIds == 1..5

\* The station lists handed to insert_stations: one or two records.
StationLists ==
    {<<a>> : a \in StationRecordIds} \cup {<<a, b>> : a, b \in StationRecordIds}

StationData(ids) == [i \in 1..Len(ids) |-> StationRecord(ids[i])]

\* ------------------------------------------------------ the feed client
\* What the feed does with one GET: the transport fails, or it answers with a
\* status and a body (ok: whether raise_for_status passes; dict: whether the
\* JSON body is a mapping; k: which one).
FeedResponses ==
    {[kind |-> "transport_error", ok |-> FALSE, dict |-> FALSE, k |-> 0],
     [kind |-> "http", ok |-> FALSE, dict |-> TRUE, k |-> 2],
     [kind |-> "http", ok |-> TRUE, dict |-> FALSE, k |-> 0]}
    \cup {[kind |-> "http", ok |-> TRUE, dict |-> TRUE, k |-> k] : k \in {1, 2, 3, 4, 7, 11}}

\* get_liveboard without the isinstance(data, dict) test: a body that is no
\* dict makes the call raise.
GetLiveboardStrict(station_id, response) ==
    IF response.kind = "transport_error" \/ ~response.ok \/ ~response.dict
    THEN [raised |-> TRUE, data |-> PyNone]
    ELSE [raised |-> FALSE, data |-> Liveboard(response.k)]

\* iRailAPI.get_liveboard(station_id) given the feed's response:
\* [raised, data]. A body that is no dict is replaced by an empty liveboard.
GetLiveboard(station_id, response) ==
    IF response.kind = "transport_error" \/ ~response.ok
    THEN [raised |-> TRUE, data |-> PyNone]
    ELSE IF ~response.dict
    THEN [raised |-> FALSE,
          data |-> PyDict([error |-> PyStr(<<"e">>),
                           station |-> PyDict("@id" :> PyStr(station_id)),
                           departures |-> PyDict([departure |-> EmptyList])])]
    ELSE [raised |-> FALSE, data |-> Liveboard(response.k)]

\* The exception session.get / raise_for_status raise for a response, "none"
\* when the response is a 2xx one.
RequestException(response) ==
    IF response.kind = "transport_error" THEN "ConnectionError"
    ELSE IF ~response.ok THEN "HTTPError"
    ELSE "none"

\* response.json() of a 2xx response to /liveboard/ or /connections/; a body
\* that is no mapping is a JSON list.
ParsedBody(response) == IF response.dict THEN Liveboard(response.k) ELSE EmptyList

\* response.json() of a 2xx response to /stations/.
StationsBody(response) ==
    IF ~response.dict THEN EmptyList
    ELSE IF response.k = 1
    THEN PyDict([version |-> PyStr(<<"1">>),
                 station |-> PyList(<<StationRecord(1), StationRecord(3)>>)])
    ELSE PyDict([version |-> PyStr(<<"1">>)])

\* What the feed does with one GET of /stations/.
StationsResponses ==
    {[kind |-> "transport_error", ok |-> FALSE, dict |-> FALSE, k |-> 0],
     [kind |-> "http", ok |-> FALSE, dict |-> TRUE, k |-> 1],
     [kind |-> "http", ok |-> TRUE, dict |-> FALSE, k |-> 0],
     [kind |-> "http", ok |-> TRUE, dict |-> TRUE, k |-> 1],
     [kind |-> "http", ok |-> TRUE, dict |-> TRUE, k |-> 2]}

\* iRailAPI.get_stations() given the feed's response: [raised, error, data].
\* A RequestException is logged and raised again; data.get on a body that is
\* no dict raises AttributeError, which no clause catches.
GetStations(response) ==
    IF RequestException(response) # "none"
    THEN [raised |-> TRUE, error |-> RequestException(response), data |-> PyNone]
    ELSE IF ~IsDict(StationsBody(response))
    THEN [raised |-> TRUE, error |-> "AttributeError", data |-> PyNone]
    ELSE [raised |-> FALSE, error |-> "none",
          data |-> Get(StationsBody(response), "station", EmptyList)]

\* iRailAPI.get_connections(from_station, to_station) given the feed's
\* response: [raised, error, data].
GetConnections(from_station, to_station, response) ==
    IF RequestException(response) # "none"
    THEN [raised |-> TRUE, error |-> RequestException(response), data |-> PyNone]
    ELSE [raised |-> FALSE, error |-> "none", data |-> ParsedBody(response)]

\* --------------------------------------------------- the batch collector
\* major_stations of both collectors (the nine station ids, abbreviated).
ConfiguredStations ==
    << <<"S", "1">>, <<"S", "2">>, <<"S", "3">>, <<"S", "4">>, <<"S", "5">>,
       <<"S", "6">>, <<"S", "7">>, <<"S", "8">>, <<"S", "9">> >>

\* The requests the manual trigger receives: method and parsed JSON body
\* (config: whether the body parsed to a mapping; stations, max_stations: its
\* keys, absent when has_stations / has_max is FALSE).
Requests ==
    {[method |-> "GET", config |-> FALSE, has_stations |-> FALSE, stations |-> <<>>,
      has_max |-> FALSE, max_stations |-> 0],
     [method |-> "POST", config |-> FALSE, has_stations |-> FALSE, stations |-> <<>>,
      has_max |-> FALSE, max_stations |-> 0],
     [method |-> "POST", config |-> TRUE, has_stations |-> TRUE,
      stations |-> << <<"S", "2">> >>, has_max |-> TRUE, max_stations |-> 1]}

\* config_params.get('max_stations', 9)
DefaultMaxStations == 9

Runs == {1, 2}

\* The locals of a collector before it is invoked.
IdleRun ==
    [pc |-> "idle", trigger |-> "none", method |-> "none",
     custom_stations |-> <<>>, max_stations |-> DefaultMaxStations,
     log_id |-> 0, idx |-> 1, response |-> [kind |-> "none"],
     total_departures_processed |-> 0, successful_stations |-> 0,
     failed_stations |-> <<>>, station_details |-> <<>>,
     status_code |-> 0, body_status |-> "none",
     aborted |-> FALSE,
     \* history, read by no code: the feed calls, inserts and sleeps in order,
     \* what happened to each station, how initialize_tables ended, the rows
     \* this run's inserts stored, whether an audit write was refused, what
     \* the feed and the database answered to the loop's calls
     trace |-> <<>>, outcomes |-> <<>>, init |-> "none",
     rows_inserted |-> 0, audit_refused |-> FALSE, received |-> <<>>]

\* ------------------------------------------------------------- state
VARIABLES
    departures,         \* the departures table, rows in insertion order
    stations,           \* the stations table
    data_factory_logs,  \* the audit table, rows in insertion order (id = position)
    storeOps,           \* storage-manager calls made so far (SpecStore)
    lastCall,           \* the last storage-manager call: its input and result
    db_manager,         \* whether SQL_CONNECTION_STRING is set (db_manager is not None)
    major_stations,     \* the station list the collectors iterate over
    run,                \* the locals of each collector invocation
    connection_pool,    \* the global ConnectionPool: pool, last_used, lock
    sessions,           \* the requests.Session objects each thread created, in order
    callers,            \* the frame of each thread's call into the pool
    clock               \* time.time()

vars == <<departures, stations, data_factory_logs, storeOps, lastCall, db_manager,
          major_stations, run, connection_pool, sessions, callers, clock>>

poolVars == <<connection_pool, sessions, callers, clock>>

runVars == <<data_factory_logs, db_manager, major_stations, run, poolVars>>

\* ------------------------------------------------------ ConnectionPool
\* cleanup_old_sessions' default threshold, in seconds.
max_age == 300

Threads == 1..MaxThreads

\* The clock moves on by the threshold or by one second more.
TickSteps == {max_age, max_age + 1}

EmptyMap == [x \in {} |-> 0]

\* d[k] = v
SetItem(d, k, v) == [x \in (DOMAIN d) \cup {k} |-> IF x = k THEN v ELSE d[x]]

\* del d[k]
DelItem(d, k) == [x \in (DOMAIN d) \ {k} |-> d[x]]

\* A thread that is in neither method of the pool.
IdleCaller ==
    [pc |-> "idle", created |-> FALSE, current_time |-> 0, expired |-> {}, sid |-> 0,
     before |-> EmptyMap, pool_before |-> EmptyMap, closed |-> {}]

\* ConnectionPool() at import: empty pool, empty last_used, a free lock.
InitPool ==
    /\ connection_pool = [pool |-> EmptyMap, last_used |-> EmptyMap, lock |-> 0]
    /\ sessions = [t \in Threads |-> <<>>]
    /\ callers = [t \in Threads |-> IdleCaller]
    /\ clock = 0

NoCall ==
    [op |-> "none", arg |-> <<>>, before |-> <<>>, raised |-> FALSE, executes |-> 0,
     inserted |-> 0, commits |-> 0, handles |-> 0]

InitStore ==
    /\ departures = <<>>
    /\ stations = <<>>
    /\ storeOps = 0
    /\ lastCall = NoCall
    /\ data_factory_logs = <<>>
    /\ db_manager = TRUE
    /\ major_stations = ConfiguredStations
    /\ run = [r \in Runs |-> [IdleRun EXCEPT !.pc = "off"]]
    /\ InitPool

\* The store after insert_departures returned res for liveboard k.
DeparturesCalled(k, res) ==
    /\ departures' = res.tbl
    /\ lastCall' = [op |-> "insert_departures", arg |-> <<k>>, before |-> departures,
                    raised |-> res.raised, executes |-> res.executes,
                    inserted |-> res.inserted, commits |-> res.commits,
                    handles |-> res.handles]

\* A caller hands a liveboard to insert_departures.
InsertDeparturesCall ==
    /\ storeOps < MaxStoreOps
    /\ \E k \in LiveboardIds, handle1 \in BOOLEAN, handle2 \in BOOLEAN :
          DeparturesCalled(k, InsertDepartures(departures, Liveboard(k), handle1, handle2))
    /\ storeOps' = storeOps + 1
    /\ UNCHANGED <<stations, runVars>>

\* The store after insert_stations returned res for the records ids.
StationsCalled(ids, res) ==
    /\ stations' = res.tbl
    /\ lastCall' = [op |-> "insert_stations", arg |-> ids, before |-> stations,
                    raised |-> res.raised, executes |-> 0, inserted |-> 0,
                    commits |-> 0, handles |-> 1]

\* A caller hands the feed's station list to insert_stations.
InsertStationsCall ==
    /\ storeOps < MaxStoreOps
    /\ \E ids \in StationLists, handle \in BOOLEAN :
          StationsCalled(ids, InsertStations(stations, StationData(ids), handle))
    /\ storeOps' = storeOps + 1
    /\ UNCHANGED <<departures, runVars>>

NextStore == InsertDeparturesCall \/ InsertStationsCall

SpecStore == InitStore /\ [][NextStore]_vars

\* ------------------------------------------------ the connection resolver
\* What pyodbc.drivers() does: it raises, or lists the drivers, with or
\* without 'ODBC Driver 17 for SQL Server'.
DriverListings == {"raises", "without17", "with17"}

\* available_drivers has 'ODBC Driver 17 for SQL Server'; a listing that
\* raised leaves available_drivers empty.
HasDriver17(listing) == listing = "with17"

\* connection_attempts with the string built from the separate values first.
ConnectionAttemptsSimpleFirst(listing) ==
    <<"simple", "original">> \o (IF listing = "with17" THEN <<"driver17">> ELSE <<>>)
                             \o <<"freetds">>

\* connection_attempts: the connection string as given, the same with
\* Driver 17 when that driver is listed, the same with FreeTDS, and the
\* string built from SQL_SERVER, SQL_DATABASE, SQL_USERNAME, SQL_PASSWORD.
ConnectionAttempts(listing) ==
    <<"original">> \o (IF HasDriver17(listing) THEN <<"driver17">> ELSE <<>>)
                   \o <<"freetds", "simple">>

\* What pyodbc.connect does with one connection string: it connects, or
\* raises with a cause.
ConnectOutcomes == {"ok", "timeout", "login"}

\* AttemptFailed keeping the last failure only.
AttemptFailedLastOnly(errors, i, cause) == <<[attempt |-> i, cause |-> cause]>>

\* errors.append(f"pyodbc attempt #{i+1} failed: {str(e)}")
AttemptFailed(errors, i, cause) == Append(errors, [attempt |-> i, cause |-> cause])

\* "for i, conn_str in enumerate(connection_attempts)": the first attempt
\* that connects is returned; when none does, the loop ends and the call
\* raises with the joined errors. Result: [raised, connection, errors,
\* attempted], connection the strategy that connected.
RECURSIVE ConnectLoop(_, _, _, _)
ConnectLoop(attempts, outcomes, i, errors) ==
    IF i > Len(attempts)
    THEN [raised |-> TRUE, connection |-> "none", errors |-> errors, attempted |-> i - 1]
    ELSE IF outcomes[i] = "ok"
    THEN [raised |-> FALSE, connection |-> attempts[i], errors |-> errors, attempted |-> i]
    ELSE ConnectLoop(attempts, outcomes, i + 1, AttemptFailed(errors, i, outcomes[i]))

\* get_connection(): without pyodbc nothing is attempted and the only error
\* is "pyodbc not available".
GetConnection(pyodbc_available, listing, outcomes) ==
    IF pyodbc_available
    THEN ConnectLoop(ConnectionAttempts(listing), outcomes, 1, <<>>)
    ELSE [raised |-> TRUE, connection |-> "none",
          errors |-> <<[attempt |-> 0, cause |-> "pyodbc not available"]>>,
          attempted |-> 0]

\* The store after get_connection returned res.
ConnectionCalled(pyodbc_available, listing, outcomes, res) ==
    lastCall' = [op |-> "get_connection", pyodbc_available |-> pyodbc_available,
                 listing |-> listing, outcomes |-> outcomes,
                 raised |-> res.raised, connection |-> res.connection,
                 errors |-> res.errors, attempted |-> res.attempted,
                 tried |-> SubSeq(ConnectionAttempts(listing), 1, res.attempted)]

\* An operation of the storage manager asks for a handle.
GetConnectionCall ==
    /\ storeOps < MaxStoreOps
    /\ \E pyodbc_available \in BOOLEAN, listing \in DriverListings,
          outcomes \in [1..4 -> ConnectOutcomes] :
          ConnectionCalled(pyodbc_available, listing, outcomes,
                           GetConnection(pyodbc_available, listing, outcomes))
    /\ storeOps' = storeOps + 1
    /\ UNCHANGED <<departures, stations, runVars>>

NextConn == GetConnectionCall

SpecConn == InitStore /\ [][NextConn]_vars

\* ------------------------------------------------------ feed client calls
\* The station ids callers ask the feed for.
StationIds == {ConfiguredStations[i] : i \in 1..Len(ConfiguredStations)}

\* The record of one feed-client call: the GETs it issued, whether it raised,
\* the exception raised and the value returned.
FeedCalled(op, station_id, response, gets, raised, error, data) ==
    lastCall' = [op |-> op, station_id |-> station_id, response |-> response,
                 gets |-> gets, raised |-> raised, error |-> error, data |-> data]

\* get_stations: one session.get, then the result of GetStations.
StationsFetched(response, res) ==
    FeedCalled("get_stations", <<>>, response, <<"/stations/">>,
               res.raised, res.error, res.data)

GetStationsCall ==
    /\ storeOps < MaxStoreOps
    /\ \E response \in StationsResponses : StationsFetched(response, GetStations(response))
    /\ storeOps' = storeOps + 1
    /\ UNCHANGED <<departures, stations, runVars>>

\* get_liveboard: one session.get, then the result of GetLiveboard; the
\* exception raised is the RequestException of the response.
LiveboardFetched(station_id, response, res) ==
    FeedCalled("get_liveboard", station_id, response, <<"/liveboard/">>,
               res.raised, IF res.raised THEN RequestException(response) ELSE "none",
               res.data)

GetLiveboardCall ==
    /\ storeOps < MaxStoreOps
    /\ \E station_id \in StationIds, response \in FeedResponses :
          LiveboardFetched(station_id, response, GetLiveboard(station_id, response))
    /\ storeOps' = storeOps + 1
    /\ UNCHANGED <<departures, stations, runVars>>

\* get_connections: one session.get, then the result of GetConnections.
ConnectionsFetched(from_station, response, res) ==
    FeedCalled("get_connections", from_station, response, <<"/connections/">>,
               res.raised, res.error, res.data)

GetConnectionsCall ==
    /\ storeOps < MaxStoreOps
    /\ \E from_station \in StationIds, to_station \in StationIds, response \in FeedResponses :
          ConnectionsFetched(from_station, response,
                             GetConnections(from_station, to_station, response))
    /\ storeOps' = storeOps + 1
    /\ UNCHANGED <<departures, stations, runVars>>

NextFeed == GetStationsCall \/ GetLiveboardCall \/ GetConnectionsCall

SpecFeed == InitStore /\ [][NextFeed]_vars

\* --------------------------------------------------- the liveboard endpoint
\* The requests /api/liveboard receives: the 'station' query parameter (<<>>
\* when absent) and the body: no valid JSON, JSON null, {}, a mapping with or
\* without 'station', or a JSON list.
LiveboardRequests ==
    [query : {<<>>, <<"S", "1">>},
     body : {"not_json", "null", "empty_dict", "station", "no_station", "list"}]

\* station_id after "Get station ID from query params or request body":
\* [raised, station_id], station_id = <<>> standing for None. get_json raises
\* ValueError on a body that is no JSON, and data.get raises AttributeError on
\* a list.
RequestStation(req) ==
    IF req.query # <<>> THEN [raised |-> FALSE, station_id |-> req.query]
    ELSE IF req.body \in {"not_json", "list"} THEN [raised |-> TRUE, station_id |-> <<>>]
    ELSE IF req.body = "station" THEN [raised |-> FALSE, station_id |-> <<"S", "2">>]
    ELSE [raised |-> FALSE, station_id |-> <<>>]

\* The func.HttpResponse of the endpoint, whether the feed was called, and
\* the departures table it leaves.
EndpointAnswer(status_code, status, message, feed_called, data, tbl) ==
    [status_code |-> status_code, status |-> status, message |-> message,
     feed_called |-> feed_called, data |-> data, tbl |-> tbl]

\* The database part of the endpoint: [tbl, db_status]. A failure of
\* initialize_tables or of insert_departures is logged and kept in db_status.
EndpointStore(tbl, db, init_ok, res) ==
    IF ~db THEN [tbl |-> tbl, db_status |-> "not configured"]
    ELSE IF ~init_ok THEN [tbl |-> tbl, db_status |-> "failed"]
    ELSE [tbl |-> res.tbl,
          db_status |-> IF res.raised THEN "failed" ELSE "stored successfully"]

\* The endpoint from the feed call on.
EndpointFetched(fetched, stored) ==
    IF fetched.raised
    THEN EndpointAnswer(500, "error", "exception", TRUE, PyNone, stored.tbl)
    ELSE EndpointAnswer(200, "success", stored.db_status, TRUE, fetched.data, stored.tbl)

\* get_liveboard(req): an exception anywhere but in the database part
\* answers 500.
LiveboardEndpoint(parsed, fetched, unfetched, stored) ==
    IF parsed.raised
    THEN EndpointAnswer(500, "error", "exception", FALSE, PyNone, unfetched)
    ELSE IF parsed.station_id = <<>>
    THEN EndpointAnswer(400, "error", "Station ID is required", FALSE, PyNone, unfetched)
    ELSE EndpointFetched(fetched, stored)

\* The store after the endpoint answered.
EndpointCalled(req, response, answer) ==
    /\ departures' = answer.tbl
    /\ lastCall' = [op |-> "liveboard", req |-> req, response |-> response,
                    status_code |-> answer.status_code, status |-> answer.status,
                    message |-> answer.message, feed_called |-> answer.feed_called,
                    data |-> answer.data, before |-> departures]

\* The liveboard the endpoint holds for the insert: the feed's, when the
\* call returned.
EndpointInsert(tbl, fetched, handle1, handle2) ==
    IF fetched.raised THEN NoInsert(tbl, TRUE)
    ELSE InsertDepartures(tbl, fetched.data, handle1, handle2)

\* A request reaches /api/liveboard.
LiveboardRequest ==
    /\ storeOps < MaxStoreOps
    /\ \E req \in LiveboardRequests, response \in FeedResponses, init_ok \in BOOLEAN,
          handle1 \in BOOLEAN, handle2 \in BOOLEAN :
          EndpointCalled(req, response,
              LiveboardEndpoint(RequestStation(req),
                  GetLiveboard(RequestStation(req).station_id, response),
                  departures,
                  EndpointStore(departures, db_manager, init_ok,
                      EndpointInsert(departures,
                          GetLiveboard(RequestStation(req).station_id, response),
                          handle1, handle2))))
    /\ storeOps' = storeOps + 1
    /\ UNCHANGED <<stations, runVars>>

InitEndpoint ==
    /\ departures = <<>>
    /\ stations = <<>>
    /\ storeOps = 0
    /\ lastCall = NoCall
    /\ data_factory_logs = <<>>
    /\ db_manager \in BOOLEAN
    /\ major_stations = ConfiguredStations
    /\ run = [r \in Runs |-> [IdleRun EXCEPT !.pc = "off"]]
    /\ InitPool

NextEndpoint == LiveboardRequest

SpecEndpoint == InitEndpoint /\ [][NextEndpoint]_vars

\* ----------------------------------------------------- the audit table
\* log_data_factory_trigger(endpoint, ...): [tbl, log_id]; log_id = 0 is None.
\* ok: whether the handle is obtained and the statements pass; a failure is
\* caught and logged, and the call returns None.
LogDataFactoryTrigger(tbl, endpoint, owner, ok) ==
    IF ok
    THEN [tbl |-> Append(tbl, [endpoint_called |-> endpoint,
                               execution_status |-> "started",
                               stations_processed |-> 0,
                               departures_collected |-> 0,
                               error_message |-> "none",
                               owner |-> owner,
                               updates |-> <<>>]),
          log_id |-> Len(tbl) + 1]
    ELSE [tbl |-> tbl, log_id |-> 0]

\* update_data_factory_log(log_id, status, ...): the table after the call.
\* updates records, per row, the statuses written to it and by which run.
UpdateDataFactoryLog(tbl, log_id, status, stations_processed, departures_collected, error_message, writer, ok) ==
    IF ok /\ log_id \in 1..Len(tbl)
    THEN [tbl EXCEPT ![log_id] =
            [@ EXCEPT !.execution_status = status,
                      !.stations_processed = stations_processed,
                      !.departures_collected = departures_collected,
                      !.error_message = error_message,
                      !.updates = Append(@, [status |-> status, by |-> writer])]]
    ELSE tbl

\* ------------------------------------------------- collector, per station
\* departures of the station loop: the 'departure' entry of a dict
\* departures section, else [].
LoopDepartures(liveboard_data) ==
    LET departures_section == Get(liveboard_data, "departures", EmptyDict)
    IN  IF IsDict(departures_section)
        THEN Get(departures_section, "departure", EmptyList)
        ELSE EmptyList

\* The pc after the station at idx - 1: the loop ends after the last station.
AfterStation(idx) == IF idx > Len(major_stations) THEN "finish" ELSE "feed"

\* ManualStationError ending the station loop.
ManualStationErrorAborting(l, station_id) ==
    [l EXCEPT !.station_details = Append(@, [station_id |-> station_id, status |-> "api_error"]),
              !.failed_stations = Append(@, [station |-> station_id, label |-> "station_id",
                                             kind |-> "API error"]),
              !.outcomes = Append(@, "feed_raised"),
              !.idx = @ + 1,
              !.pc = "finish"]

\* The station loop's "except Exception as station_error" of the manual
\* trigger: the station is recorded as failed, and the loop continues. It
\* handles the feed call's exception and any raised by the statements that
\* follow it in the try block (outcome "feed_raised" for all of them).
ManualStationError(l, station_id) ==
    [l EXCEPT !.station_details = Append(@, [station_id |-> station_id, status |-> "api_error"]),
              !.failed_stations = Append(@, [station |-> station_id, label |-> "station_id",
                                             kind |-> "API error"]),
              !.outcomes = Append(@, "feed_raised"),
              !.idx = @ + 1,
              !.pc = AfterStation(l.idx + 1)]

\* TimerStationError with the station left out of failed_stations.
TimerStationErrorUnrecorded(l, station_id) ==
    [l EXCEPT !.outcomes = Append(@, "feed_raised"),
              !.idx = @ + 1,
              !.pc = AfterStation(l.idx + 1)]

\* The same handler of the timer trigger.
TimerStationError(l, station_id) ==
    [l EXCEPT !.failed_stations = Append(@, [station |-> station_id, label |-> "station_id",
                                             kind |-> "API error"]),
              !.outcomes = Append(@, "feed_raised"),
              !.idx = @ + 1,
              !.pc = AfterStation(l.idx + 1)]

\* AfterInsert with the successful station left uncounted.
AfterInsertUncounted(l, station_id, departures_found, res) ==
    LET traced == [l EXCEPT !.trace = @ \o << <<"insert", station_id>>, <<"sleep", station_id>> >>,
                            !.rows_inserted = @ + res.inserted,
                            !.outcomes = Append(@, IF res.raised THEN "insert_raised"
                                                   ELSE "inserted"),
                            !.response = [kind |-> "none"],
                            !.idx = @ + 1,
                            !.pc = AfterStation(l.idx + 1)]
    IN  IF res.raised
        THEN [traced EXCEPT !.failed_stations =
                               Append(@, [station |-> station_id, label |-> "station_name",
                                          kind |-> "DB error"])]
        ELSE [traced EXCEPT !.total_departures_processed = @ + PyLen(departures_found)]

\* AfterInsert with a failed insert_departures ending the station loop.
AfterInsertAborting(l, station_id, departures_found, res) ==
    LET traced == [l EXCEPT !.trace = @ \o << <<"insert", station_id>>, <<"sleep", station_id>> >>,
                            !.rows_inserted = @ + res.inserted,
                            !.outcomes = Append(@, IF res.raised THEN "insert_raised"
                                                   ELSE "inserted"),
                            !.response = [kind |-> "none"],
                            !.idx = @ + 1,
                            !.pc = AfterStation(l.idx + 1)]
    IN  IF res.raised
        THEN [traced EXCEPT !.failed_stations =
                               Append(@, [station |-> station_id, label |-> "station_name",
                                          kind |-> "DB error"]),
                            !.pc = "finish"]
        ELSE [traced EXCEPT !.total_departures_processed = @ + PyLen(departures_found),
                            !.successful_stations = @ + 1]

\* The locals after "db_manager.insert_departures(liveboard_data)" and what
\* follows it in the loop body (res: the call's result), up to the sleep.
AfterInsert(l, station_id, departures_found, res) ==
    LET traced == [l EXCEPT !.trace = @ \o << <<"insert", station_id>>, <<"sleep", station_id>> >>,
                            !.received = Append(@, [kind |-> "db", handles |-> res.handles,
                                                    commits |-> res.commits]),
                            !.rows_inserted = @ + res.inserted,
                            !.outcomes = Append(@, IF res.raised THEN "insert_raised"
                                                   ELSE "inserted"),
                            !.response = [kind |-> "none"],
                            !.idx = @ + 1,
                            !.pc = AfterStation(l.idx + 1)]
    IN  IF res.raised
        THEN [traced EXCEPT !.failed_stations =
                               Append(@, [station |-> station_id, label |-> "station_name",
                                          kind |-> "DB error"])]
        ELSE [traced EXCEPT !.total_departures_processed = @ + PyLen(departures_found),
                            !.successful_stations = @ + 1]

\* The locals after a station without departures, up to the sleep.
AfterNoData(l, station_id) ==
    [l EXCEPT !.trace = Append(@, <<"sleep", station_id>>),
              !.outcomes = Append(@, "no_data"),
              !.response = [kind |-> "none"],
              !.idx = @ + 1,
              !.pc = AfterStation(l.idx + 1)]

\* The entry the manual trigger appends to station_details.
WithDetail(l, station_id, status) ==
    [l EXCEPT !.station_details = Append(@, [station_id |-> station_id, status |-> status])]

\* ------------------------------------------- ConnectionPool's methods
appVars == <<departures, stations, data_factory_logs, storeOps, db_manager,
             major_stations, run>>

\* threading.Lock held by every caller, whoever asks.
LockFreeAlways(lock) == TRUE

\* threading.Lock: acquire goes through only while nobody holds it.
LockFree(lock) == lock = 0

\* get_session: with self.lock
GetSessionEnter(t) ==
    /\ callers[t].pc = "idle"
    /\ LockFree(connection_pool.lock)
    /\ connection_pool' = [connection_pool EXCEPT !.lock = t]
    /\ callers' = [callers EXCEPT ![t] = [IdleCaller EXCEPT !.pc = "lookup"]]
    /\ UNCHANGED <<appVars, lastCall, sessions, clock>>

\* get_session: session_id = threading.get_ident(); a session is created and
\* pooled when the thread has none.
GetSessionLookup(t) ==
    /\ callers[t].pc = "lookup"
    /\ IF t \notin DOMAIN connection_pool.pool
       THEN /\ sessions' = [sessions EXCEPT ![t] = Append(@, [open |-> TRUE])]
            /\ connection_pool' =
                   [connection_pool EXCEPT !.pool = SetItem(@, t, <<t, Len(sessions[t]) + 1>>)]
            /\ callers' = [callers EXCEPT ![t].pc = "touch", ![t].created = TRUE]
       ELSE /\ callers' = [callers EXCEPT ![t].pc = "touch"]
            /\ UNCHANGED <<sessions, connection_pool>>
    /\ UNCHANGED <<appVars, lastCall, clock>>

\* get_session: self.last_used[session_id] = time.time()
GetSessionTouch(t) ==
    /\ callers[t].pc = "touch"
    /\ connection_pool' = [connection_pool EXCEPT !.last_used = SetItem(@, t, clock)]
    /\ callers' = [callers EXCEPT ![t].pc = "return"]
    /\ UNCHANGED <<appVars, lastCall, sessions, clock>>

\* get_session: return self.pool[session_id]; the lock is released.
GetSessionReturn(t) ==
    /\ callers[t].pc = "return"
    /\ lastCall' = [op |-> "get_session", thread |-> t,
                    session |-> IF t \in DOMAIN connection_pool.pool
                                THEN connection_pool.pool[t] ELSE <<>>,
                    created |-> callers[t].created]
    /\ connection_pool' = [connection_pool EXCEPT !.lock = 0]
    /\ callers' = [callers EXCEPT ![t] = IdleCaller]
    /\ UNCHANGED <<appVars, sessions, clock>>

\* cleanup_old_sessions: with self.lock
CleanupEnter(t) ==
    /\ callers[t].pc = "idle"
    /\ LockFree(connection_pool.lock)
    /\ connection_pool' = [connection_pool EXCEPT !.lock = t]
    /\ callers' = [callers EXCEPT ![t] = [IdleCaller EXCEPT !.pc = "scan"]]
    /\ UNCHANGED <<appVars, lastCall, sessions, clock>>

\* cleanup_old_sessions: current_time = time.time(); expired_sessions are the
\* keys of last_used idle for more than max_age.
CleanupScan(t) ==
    /\ callers[t].pc = "scan"
    /\ callers' = [callers EXCEPT
           ![t].pc = "sweep",
           ![t].current_time = clock,
           ![t].expired = {sid \in DOMAIN connection_pool.last_used :
                              clock - connection_pool.last_used[sid] > max_age},
           ![t].before = connection_pool.last_used,
           ![t].pool_before = connection_pool.pool]
    /\ UNCHANGED <<appVars, lastCall, connection_pool, sessions, clock>>

\* cleanup_old_sessions: the next sid of expired_sessions; if sid in
\* self.pool, self.pool[sid].close()
CleanupClose(t) ==
    /\ callers[t].pc = "sweep"
    /\ \E sid \in callers[t].expired :
          IF sid \in DOMAIN connection_pool.pool
          THEN /\ sessions' = [sessions EXCEPT
                      ![connection_pool.pool[sid][1]][connection_pool.pool[sid][2]].open = FALSE]
               /\ callers' = [callers EXCEPT
                      ![t].pc = "del_pool", ![t].sid = sid,
                      ![t].closed = @ \cup {connection_pool.pool[sid]}]
          ELSE /\ callers' = [callers EXCEPT ![t].expired = @ \ {sid}]
               /\ UNCHANGED sessions
    /\ UNCHANGED <<appVars, lastCall, connection_pool, clock>>

\* cleanup_old_sessions: del self.pool[sid]
CleanupDelPool(t) ==
    /\ callers[t].pc = "del_pool"
    /\ connection_pool' = [connection_pool EXCEPT !.pool = DelItem(@, callers[t].sid)]
    /\ callers' = [callers EXCEPT ![t].pc = "del_last_used"]
    /\ UNCHANGED <<appVars, lastCall, sessions, clock>>

\* cleanup_old_sessions: del self.last_used[sid]
CleanupDelLastUsed(t) ==
    /\ callers[t].pc = "del_last_used"
    /\ connection_pool' = [connection_pool EXCEPT !.last_used = DelItem(@, callers[t].sid)]
    /\ callers' = [callers EXCEPT ![t].pc = "sweep", ![t].expired = @ \ {callers[t].sid}]
    /\ UNCHANGED <<appVars, lastCall, sessions, clock>>

\* cleanup_old_sessions: the loop is over; the lock is released.
CleanupReturn(t) ==
    /\ callers[t].pc = "sweep"
    /\ callers[t].expired = {}
    /\ lastCall' = [op |-> "cleanup_old_sessions", thread |-> t,
                    current_time |-> callers[t].current_time,
                    before |-> callers[t].before,
                    pool_before |-> callers[t].pool_before,
                    closed |-> callers[t].closed,
                    after |-> connection_pool.pool,
                    last_used_after |-> connection_pool.last_used]
    /\ connection_pool' = [connection_pool EXCEPT !.lock = 0]
    /\ callers' = [callers EXCEPT ![t] = IdleCaller]
    /\ UNCHANGED <<appVars, sessions, clock>>

\* time.time() moves on, whatever the threads are doing.
Tick ==
    /\ \E d \in TickSteps :
          /\ clock + d <= MaxTicks * (max_age + 1)
          /\ clock' = clock + d
    /\ UNCHANGED <<appVars, lastCall, connection_pool, sessions, callers>>

NextPool ==
    \/ Tick
    \/ \E t \in Threads :
          \/ GetSessionEnter(t)
          \/ GetSessionLookup(t)
          \/ GetSessionTouch(t)
          \/ GetSessionReturn(t)
          \/ CleanupEnter(t)
          \/ CleanupScan(t)
          \/ CleanupClose(t)
          \/ CleanupDelPool(t)
          \/ CleanupDelLastUsed(t)
          \/ CleanupReturn(t)

SpecPool == InitStore /\ [][NextPool]_vars


\* ------------------------------------------------ manual_data_collection
storeVars == <<stations, storeOps, lastCall, poolVars>>

\* A request reaches /api/collect-data. custom_stations, max_stations are what
\* the handler reads from the parsed body (it parses the body after logging
\* the trigger; the parse touches nothing but these locals).
ManualTrigger(r) ==
    /\ run[r].pc = "idle"
    /\ \E req \in Requests :
          run' = [run EXCEPT ![r] =
                    [IdleRun EXCEPT !.pc = "log",
                                    !.trigger = "manual",
                                    !.method = req.method,
                                    !.custom_stations =
                                        IF req.config /\ req.has_stations
                                        THEN req.stations ELSE <<>>,
                                    !.max_stations =
                                        IF req.config /\ req.has_max
                                        THEN req.max_stations ELSE DefaultMaxStations]]
    /\ UNCHANGED <<departures, data_factory_logs, db_manager, major_stations, storeVars>>

\* ManualLogTrigger with a refused audit write ending the request.
ManualLogTriggerFatal(r) ==
    /\ run[r].pc = "log"
    /\ IF db_manager
       THEN \E ok \in BOOLEAN :
               LET res == LogDataFactoryTrigger(data_factory_logs, "/api/collect-data", r, ok)
               IN  /\ data_factory_logs' = res.tbl
                   /\ run' = [run EXCEPT ![r].log_id = res.log_id,
                                         ![r].audit_refused = ~ok,
                                         ![r].status_code = IF ok THEN 0 ELSE 500,
                                         ![r].body_status = IF ok THEN "none" ELSE "error",
                                         ![r].aborted = ~ok,
                                         ![r].pc = IF ok THEN "init" ELSE "done"]
       ELSE /\ run' = [run EXCEPT ![r].pc = "init"]
            /\ UNCHANGED data_factory_logs
    /\ UNCHANGED <<departures, db_manager, major_stations, storeVars>>

\* "Log the Data Factory trigger call": the audit row is created.
ManualLogTrigger(r) ==
    /\ run[r].pc = "log"
    /\ IF db_manager
       THEN \E ok \in BOOLEAN :
               LET res == LogDataFactoryTrigger(data_factory_logs, "/api/collect-data", r, ok)
               IN  /\ data_factory_logs' = res.tbl
                   /\ run' = [run EXCEPT ![r].log_id = res.log_id,
                                         ![r].audit_refused = ~ok,
                                         ![r].pc = "init"]
       ELSE /\ run' = [run EXCEPT ![r].pc = "init"]
            /\ UNCHANGED data_factory_logs
    /\ UNCHANGED <<departures, db_manager, major_stations, storeVars>>

\* "Check database availability first" and "Initialize database tables":
\* without a database manager, or when initialize_tables raises, the handler
\* returns 500 at once.
ManualInitializeTables(r) ==
    /\ run[r].pc = "init"
    /\ \E ok \in BOOLEAN :
          IF db_manager /\ ok
          THEN run' = [run EXCEPT ![r].pc = AfterStation(1), ![r].init = "ok"]
          ELSE run' = [run EXCEPT ![r].pc = "done",
                                  ![r].init = "failed",
                                  ![r].aborted = TRUE,
                                  ![r].status_code = 500,
                                  ![r].body_status = "error"]
    /\ UNCHANGED <<departures, data_factory_logs, db_manager, major_stations, storeVars>>

\* The station loop up to and including irail_client.get_liveboard.
ManualFeedCall(r) ==
    /\ run[r].trigger = "manual"
    /\ run[r].pc = "feed"
    /\ \E response \in FeedResponses :
          LET l == run[r]
              station_id == major_stations[l.idx]
              called == [l EXCEPT !.trace = Append(@, <<"feed", station_id>>),
                                  !.received = Append(@, response)]
          IN  IF GetLiveboard(station_id, response).raised
              THEN run' = [run EXCEPT ![r] = ManualStationError(called, station_id)]
              ELSE run' = [run EXCEPT ![r] = [called EXCEPT !.response = response,
                                                              !.pc = "store"]]
    /\ UNCHANGED <<departures, data_factory_logs, db_manager, major_stations, storeVars>>

\* The manual loop body after insert_departures returned res.
ManualInserted(r, station_id, departures_found, res) ==
    /\ departures' = res.tbl
    /\ run' = [run EXCEPT ![r] =
                 WithDetail(AfterInsert(run[r], station_id, departures_found, res),
                            station_id, IF res.raised THEN "db_error" ELSE "success")]

\* The manual loop body from the liveboard on; len(departures) of the
\* analytics raises when departures has no length.
ManualStore(r, station_id, liveboard_data, departures_found) ==
    IF ~Sized(departures_found)
    THEN /\ run' = [run EXCEPT ![r] =
                      ManualStationError([run[r] EXCEPT !.response = [kind |-> "none"]],
                                         station_id)]
         /\ UNCHANGED departures
    ELSE IF Truthy(departures_found)
    THEN \E handle1 \in BOOLEAN, handle2 \in BOOLEAN :
            ManualInserted(r, station_id, departures_found,
                           InsertDepartures(departures, liveboard_data, handle1, handle2))
    ELSE /\ run' = [run EXCEPT ![r] =
                      WithDetail(AfterNoData(run[r], station_id), station_id, "no_data")]
         /\ UNCHANGED departures

\* The liveboard the loop holds after the feed call.
HeldLiveboard(r) ==
    GetLiveboard(major_stations[run[r].idx], run[r].response).data

\* The rest of the loop body: analytics, insert_departures, time.sleep(0.4).
ManualStoreStation(r) ==
    /\ run[r].trigger = "manual"
    /\ run[r].pc = "store"
    /\ ManualStore(r, major_stations[run[r].idx], HeldLiveboard(r),
                   LoopDepartures(HeldLiveboard(r)))
    /\ UNCHANGED <<data_factory_logs, db_manager, major_stations, storeVars>>

\* "Update Data Factory log with success", after the loop.
ManualUpdateLog(r) ==
    /\ run[r].trigger = "manual"
    /\ run[r].pc = "finish"
    /\ LET l == run[r]
       IN  IF l.log_id # 0 /\ db_manager
           THEN \E ok \in BOOLEAN :
                   /\ data_factory_logs' =
                         UpdateDataFactoryLog(data_factory_logs, l.log_id, "success",
                                              l.successful_stations,
                                              l.total_departures_processed, "none", r, ok)
                   /\ run' = [run EXCEPT ![r].pc = "respond",
                                         ![r].audit_refused = @ \/ ~ok]
           ELSE /\ run' = [run EXCEPT ![r].pc = "respond"]
                /\ UNCHANGED data_factory_logs
    /\ UNCHANGED <<departures, db_manager, major_stations, storeVars>>

\* The status the handler answers with.
StatusCode(successful_stations, failed_stations) ==
    IF successful_stations = 0 THEN 500
    ELSE IF Len(failed_stations) > 0 THEN 206
    ELSE 200

\* "Return appropriate HTTP status": the branches that answer 500 and 206
\* update the audit row again before they return.
ManualRespond(r) ==
    /\ run[r].pc = "respond"
    /\ LET l == run[r]
           code == StatusCode(l.successful_stations, l.failed_stations)
           returned == [l EXCEPT !.pc = "done", !.status_code = code,
                                 !.body_status = "success"]
       IN  IF code # 200 /\ l.log_id # 0 /\ db_manager
           THEN \E ok \in BOOLEAN :
                   /\ data_factory_logs' =
                         IF code = 500
                         THEN UpdateDataFactoryLog(data_factory_logs, l.log_id, "failed",
                                                   0, 0, "All stations failed to process", r, ok)
                         ELSE UpdateDataFactoryLog(data_factory_logs, l.log_id,
                                                   "partial_success", l.successful_stations,
                                                   l.total_departures_processed,
                                                   "stations failed", r, ok)
                   /\ run' = [run EXCEPT ![r] = [returned EXCEPT !.audit_refused = @ \/ ~ok]]
           ELSE /\ run' = [run EXCEPT ![r] = returned]
                /\ UNCHANGED data_factory_logs
    /\ UNCHANGED <<departures, db_manager, major_stations, storeVars>>

\* --------------------------------------- automated_irail_data_collection
\* The timer fires.
TimerTrigger(r) ==
    /\ run[r].pc = "idle"
    /\ run' = [run EXCEPT ![r] = [IdleRun EXCEPT !.pc = "tinit", !.trigger = "timer"]]
    /\ UNCHANGED <<departures, data_factory_logs, db_manager, major_stations, storeVars>>

\* "Initialize database once": when initialize_tables raises, the outer
\* handler logs the error and the function ends.
TimerInitializeTables(r) ==
    /\ run[r].pc = "tinit"
    /\ \E ok \in BOOLEAN :
          IF ~db_manager \/ ok
          THEN run' = [run EXCEPT ![r].pc = AfterStation(1), ![r].init = "ok"]
          ELSE run' = [run EXCEPT ![r].pc = "done", ![r].init = "failed",
                                  ![r].aborted = TRUE]
    /\ UNCHANGED <<departures, data_factory_logs, db_manager, major_stations, storeVars>>

\* The station loop up to and including irail_client.get_liveboard.
TimerFeedCall(r) ==
    /\ run[r].trigger = "timer"
    /\ run[r].pc = "feed"
    /\ \E response \in FeedResponses :
          LET l == run[r]
              station_id == major_stations[l.idx]
              called == [l EXCEPT !.trace = Append(@, <<"feed", station_id>>),
                                  !.received = Append(@, response)]
          IN  IF GetLiveboard(station_id, response).raised
              THEN run' = [run EXCEPT ![r] = TimerStationError(called, station_id)]
              ELSE run' = [run EXCEPT ![r] = [called EXCEPT !.response = response,
                                                              !.pc = "store"]]
    /\ UNCHANGED <<departures, data_factory_logs, db_manager, major_stations, storeVars>>

\* The timer loop body after insert_departures returned res.
TimerInserted(r, station_id, departures_found, res) ==
    /\ departures' = res.tbl
    /\ run' = [run EXCEPT ![r] = AfterInsert(run[r], station_id, departures_found, res)]

\* The timer loop body from the liveboard on.
TimerStore(r, station_id, liveboard_data, departures_found) ==
    IF ~Sized(departures_found)
    THEN /\ run' = [run EXCEPT ![r] =
                      TimerStationError([run[r] EXCEPT !.response = [kind |-> "none"]],
                                        station_id)]
         /\ UNCHANGED departures
    ELSE IF db_manager /\ Truthy(departures_found)
    THEN \E handle1 \in BOOLEAN, handle2 \in BOOLEAN :
            TimerInserted(r, station_id, departures_found,
                          InsertDepartures(departures, liveboard_data, handle1, handle2))
    ELSE /\ run' = [run EXCEPT ![r] = AfterNoData(run[r], station_id)]
         /\ UNCHANGED departures

\* The rest of the loop body: analytics, insert_departures when there is a
\* database manager, time.sleep(0.4).
TimerStoreStation(r) ==
    /\ run[r].trigger = "timer"
    /\ run[r].pc = "store"
    /\ TimerStore(r, major_stations[run[r].idx], HeldLiveboard(r),
                  LoopDepartures(HeldLiveboard(r)))
    /\ UNCHANGED <<data_factory_logs, db_manager, major_stations, storeVars>>

\* The summary logging after the loop; the function returns None.
TimerFinish(r) ==
    /\ run[r].trigger = "timer"
    /\ run[r].pc = "finish"
    /\ run' = [run EXCEPT ![r].pc = "done"]
    /\ UNCHANGED <<departures, data_factory_logs, db_manager, major_stations, storeVars>>

\* ------------------------------------------------------- specifications
\* One collection run, started by either trigger, over a station list of up
\* to MaxStations stations.
Init ==
    /\ departures = <<>>
    /\ stations = <<>>
    /\ storeOps = 0
    /\ lastCall = NoCall
    /\ data_factory_logs = <<>>
    /\ db_manager \in BOOLEAN
    /\ major_stations \in {SubSeq(ConfiguredStations, 1, n) : n \in 0..MaxStations}
    /\ run = [r \in Runs |-> IF r = 1 THEN IdleRun ELSE [IdleRun EXCEPT !.pc = "off"]]
    /\ InitPool

Next ==
    \E r \in Runs :
        \/ ManualTrigger(r)
        \/ ManualLogTrigger(r)
        \/ ManualInitializeTables(r)
        \/ ManualFeedCall(r)
        \/ ManualStoreStation(r)
        \/ ManualUpdateLog(r)
        \/ ManualRespond(r)
        \/ TimerTrigger(r)
        \/ TimerInitializeTables(r)
        \/ TimerFeedCall(r)
        \/ TimerStoreStation(r)
        \/ TimerFinish(r)

Spec == Init /\ [][Next]_vars

\* Two collection runs, each started by either trigger, overlapping in any
\* way, over one configured station and a configured database.
InitTwoRuns ==
    /\ departures = <<>>
    /\ stations = <<>>
    /\ storeOps = 0
    /\ lastCall = NoCall
    /\ data_factory_logs = <<>>
    /\ db_manager = TRUE
    /\ major_stations = SubSeq(ConfiguredStations, 1, 1)
    /\ run = [r \in Runs |-> IdleRun]
    /\ InitPool

SpecTwoRuns == InitTwoRuns /\ [][Next]_vars

\* The locals again of a run that initialize_tables, the feed and the database
\* answer as they answered the run with locals first, as far as it has come.
Replays(again, first) ==
    /\ again.init \in {"none", first.init}
    /\ Len(again.received) <= Len(first.received)
    /\ again.received = SubSeq(first.received, 1, Len(again.received))

\* Two collection runs one after the other over a configured database: the
\* second is triggered once the first has ended, and its calls are answered
\* as the first run's were.
InitPair ==
    /\ departures = <<>>
    /\ stations = <<>>
    /\ storeOps = 0
    /\ lastCall = NoCall
    /\ data_factory_logs = <<>>
    /\ db_manager = TRUE
    /\ major_stations \in {SubSeq(ConfiguredStations, 1, n) : n \in 1..MaxStations}
    /\ run = [r \in Runs |-> IdleRun]
    /\ InitPool

NextPair ==
    \E r \in Runs :
        /\ r = 1 \/ run[1].pc = "done"
        /\ \/ ManualTrigger(r)
           \/ ManualLogTrigger(r)
           \/ ManualInitializeTables(r)
           \/ ManualFeedCall(r)
           \/ ManualStoreStation(r)
           \/ ManualUpdateLog(r)
           \/ ManualRespond(r)
           \/ TimerTrigger(r)
           \/ TimerInitializeTables(r)
           \/ TimerFeedCall(r)
           \/ TimerStoreStation(r)
           \/ TimerFinish(r)
        /\ r = 2 => Replays(run'[2], run[1])

SpecPair == InitPair /\ [][NextPair]_vars

\* =============================================================== claims
Finished(r) == run[r].pc = "done"

\* The run went through its station loop and returned.
Looped(r) == Finished(r) /\ ~run[r].aborted

IsFeedEvent(e) == e[1] = "feed"

StationOf(events) == [i \in 1..Len(events) |-> events[i][2]]

\* The stations whose liveboard run r asked the feed for, in call order.
FeedCalls(r) == StationOf(SelectSeq(run[r].trace, IsFeedEvent))

NumStations == Len(major_stations)

Count(seq, x) == Cardinality({i \in 1..Len(seq) : seq[i] = x})

RowsOwnedBy(r) == {i \in 1..Len(data_factory_logs) : data_factory_logs[i].owner = r}

\* The feed call of station k raised, and every other station's feed call
\* and insert succeeded.
OnlyFeedFailure(r, k) ==
    /\ run[r].outcomes[k] = "feed_raised"
    /\ \A j \in 1..NumStations : j # k => run[r].outcomes[j] = "inserted"

\* C1 (as stated): a manual run over N >= 1 stations answers 200 when no
\* station failed, 206 when at least one but not all stations failed, and
\* 500 when all stations failed.
C1_StatusByFailures ==
    \A r \in Runs :
        (run[r].trigger = "manual" /\ Looped(r) /\ NumStations >= 1) =>
            /\ Len(run[r].failed_stations) = 0 => run[r].status_code = 200
            /\ (Len(run[r].failed_stations) >= 1
                   /\ Len(run[r].failed_stations) < NumStations) => run[r].status_code = 206
            /\ Len(run[r].failed_stations) = NumStations => run[r].status_code = 500

\* C2: when exactly one station's feed call raises and every other station
\* is fetched and stored, the run counts N-1 successes and one failure, the
\* failure names that station, and the manual trigger answers 206 (500 when
\* N = 1) and, its audit writes accepted, leaves the audit row at
\* partial_success (failed when N = 1).
C2_OneFeedFailure ==
    \A r \in Runs : \A k \in 1..NumStations :
        (Looped(r) /\ Len(run[r].outcomes) = NumStations /\ OnlyFeedFailure(r, k)) =>
            /\ run[r].successful_stations = NumStations - 1
            /\ Len(run[r].failed_stations) = 1
            /\ run[r].failed_stations[1].station = major_stations[k]
            /\ run[r].failed_stations[1].kind = "API error"
            /\ run[r].trigger = "manual" =>
                  /\ run[r].status_code = IF NumStations > 1 THEN 206 ELSE 500
                  /\ (run[r].log_id # 0 /\ ~run[r].audit_refused) =>
                        data_factory_logs[run[r].log_id].execution_status =
                            IF NumStations > 1 THEN "partial_success" ELSE "failed"

C2_Witness ==
    \E r \in Runs :
        /\ Looped(r) /\ run[r].trigger = "manual" /\ NumStations = 2
        /\ Len(run[r].outcomes) = 2 /\ OnlyFeedFailure(r, 1)
        /\ run[r].status_code = 206
        /\ run[r].log_id # 0 /\ ~run[r].audit_refused

C5_WrittenOnce ==
    \A i \in 1..Len(data_factory_logs) :
        /\ Len(data_factory_logs[i].updates) <= 1
        /\ data_factory_logs[i].updates = <<>> =>
              data_factory_logs[i].execution_status = "started"
        /\ Len(data_factory_logs[i].updates) = 1 =>
              data_factory_logs[i].execution_status \in {"success", "partial_success", "error"}

\* C6 (as stated): with a database configured and no audit write refused, a
\* run that has returned, manual or timer, owns exactly one audit row, and
\* that row is no longer 'started'.
C6_AuditRowTerminal ==
    \A r \in Runs :
        (Finished(r) /\ db_manager /\ ~run[r].audit_refused) =>
            /\ Cardinality(RowsOwnedBy(r)) = 1
            /\ \A i \in RowsOwnedBy(r) : data_factory_logs[i].execution_status # "started"

\* The status the station outcomes of a run call for.
ExpectedCode(outcomes) ==
    IF Count(outcomes, "inserted") = 0 THEN 500
    ELSE IF Count(outcomes, "feed_raised") + Count(outcomes, "insert_raised") > 0 THEN 206
    ELSE 200

\* C7: a manual run one of whose audit writes was refused returns what its
\* initialisation and its stations alone determine: after a passed
\* initialisation it has asked for every station and its counts and status
\* are those of the station outcomes; it ends before the loop only when
\* initialize_tables failed.
C7_AuditFailureOnlyLogged ==
    \A r \in Runs :
        (run[r].trigger = "manual" /\ Finished(r) /\ run[r].audit_refused) =>
            IF run[r].init = "ok"
            THEN /\ FeedCalls(r) = major_stations
                 /\ Len(run[r].outcomes) = NumStations
                 /\ run[r].successful_stations = Count(run[r].outcomes, "inserted")
                 /\ Len(run[r].failed_stations) =
                       Count(run[r].outcomes, "feed_raised")
                       + Count(run[r].outcomes, "insert_raised")
                 /\ run[r].status_code = ExpectedCode(run[r].outcomes)
                 /\ run[r].body_status = "success"
            ELSE /\ run[r].init = "failed"
                 /\ run[r].status_code = 500

C7_Witness ==
    \E r \in Runs :
        /\ run[r].trigger = "manual" /\ Finished(r) /\ run[r].audit_refused
        /\ run[r].log_id = 0
        /\ run[r].init = "ok"
        /\ NumStations = 2
        /\ run[r].status_code = 200

\* The smaller of two numbers.
Min(a, b) == IF a < b THEN a ELSE b

\* C8 (as stated): a manual run given an override station list asks the feed
\* for exactly the stations of that list, up to max_stations, in order.
C8_OverrideListPolled ==
    \A r \in Runs :
        (run[r].trigger = "manual" /\ Looped(r) /\ run[r].custom_stations # <<>>) =>
            FeedCalls(r) = SubSeq(run[r].custom_stations, 1,
                                  Min(run[r].max_stations, Len(run[r].custom_stations)))

\* s is the start of t.
IsPrefix(s, t) == Len(s) <= Len(t) /\ SubSeq(t, 1, Len(s)) = s

\* C9: no two rows of departures have the same (station_uri, vehicle_uri,
\* scheduled_time), and insert_departures leaves the rows it found as they
\* were: an insert that repeats a stored triple adds nothing.
C9_DuplicateRejected ==
    /\ \A i, j \in 1..Len(departures) :
          SameTriple(departures[i], departures[j]) => i = j
    /\ lastCall.op = "insert_departures" => IsPrefix(lastCall.before, departures)

\* The same liveboard is stored a second time: every statement is rejected.
C9_Witness ==
    /\ lastCall.op = "insert_departures"
    /\ lastCall.before # <<>>
    /\ lastCall.executes > 0
    /\ lastCall.inserted = 0
    /\ ~lastCall.raised
    /\ departures = lastCall.before

\* The identifier and the name of each station record of StationRecord.
RecordId(k) ==
    CASE k \in {1, 2} -> <<"1">>
      [] k = 3 -> <<"2">>
      [] OTHER -> <<>>

RecordName(k) ==
    CASE k = 1 -> <<"A">> [] k = 2 -> <<"B">> [] k = 3 -> <<"C">>
      [] k = 4 -> <<"D">> [] k = 5 -> <<"E">>

\* The last record of ids with the identifier of record j.
LastSameId(ids, j) ==
    CHOOSE m \in 1..Len(ids) :
        /\ RecordId(ids[m]) = RecordId(ids[j])
        /\ \A n \in (m + 1)..Len(ids) : RecordId(ids[n]) # RecordId(ids[j])

\* C10: stations holds at most one row per identifier, and after an upsert
\* the row of each upserted identifier carries the name of the last record
\* upserted with that identifier.
C10_UpsertLatestName ==
    /\ \A i, j \in 1..Len(stations) : stations[i].id = stations[j].id => i = j
    /\ (lastCall.op = "insert_stations" /\ ~lastCall.raised) =>
          \A j \in 1..Len(lastCall.arg) :
              \E i \in 1..Len(stations) :
                  /\ stations[i].id = PyStr(RecordId(lastCall.arg[j]))
                  /\ stations[i].name =
                        PyStr(RecordName(lastCall.arg[LastSameId(lastCall.arg, j)]))

\* Station 1 is stored as "A", then upserted as "B".
C10_Witness ==
    /\ lastCall.op = "insert_stations"
    /\ ~lastCall.raised
    /\ lastCall.arg = <<2>>
    /\ \E i \in 1..Len(lastCall.before) :
          /\ lastCall.before[i].id = PyStr(<<"1">>)
          /\ lastCall.before[i].name = PyStr(<<"A">>)
    /\ Len(stations) = 1
    /\ stations[1].id = PyStr(<<"1">>)
    /\ stations[1].name = PyStr(<<"B">>)

\* ------------------------------------------- storage manager, departures
\* The departure mappings of liveboard k, in payload order.
PayloadDepartures(k) ==
    IF NothingToInsert(Get(Liveboard(k), "departures", EmptyDict)) THEN <<>>
    ELSE SelectSeq(DepartureList(Liveboard(k)), IsDict)

\* insert_departures was called on liveboard k with an empty table and
\* returned.
StoredIntoEmpty(k) ==
    /\ lastCall.op = "insert_departures"
    /\ lastCall.arg = <<k>>
    /\ lastCall.before = <<>>
    /\ ~lastCall.raised

\* C11 (as stated): no row of stations has an empty identifier: a record
\* whose URI is missing or does not end in digits is not stored.
C11_EmptyIdRejected ==
    \A i \in 1..Len(stations) : stations[i].id # EmptyStr

\* The (vehicle, time) pairs of the departures ds are pairwise distinct.
DistinctVehicleTime(ds) ==
    \A i, j \in 1..Len(ds) :
        (/\ PyEq(Get(ds[i], "vehicle", PyNone), Get(ds[j], "vehicle", PyNone))
         /\ PyEq(Get(ds[i], "time", PyNone), Get(ds[j], "time", PyNone))) => i = j

\* C12 (as stated): a call of insert_departures on an empty table with k >= 1
\* departure mappings of pairwise distinct (vehicle, time) issues k inserts,
\* commits once and leaves k rows.
C12_OneInsertPerDeparture ==
    \A k \in LiveboardIds :
        (/\ StoredIntoEmpty(k)
         /\ Len(PayloadDepartures(k)) >= 1
         /\ DistinctVehicleTime(PayloadDepartures(k))) =>
            /\ lastCall.executes = Len(PayloadDepartures(k))
            /\ lastCall.commits = 1
            /\ Len(departures) = Len(PayloadDepartures(k))

\* The vehicle name the priority order gives a departure: the vehicle-info
\* short name, else its full name, else the raw vehicle string, else "Unknown".
PriorityVehicleName(info, raw) ==
    IF IsDict(info) /\ Truthy(Get(info, "shortname", PyNone))
    THEN Get(info, "shortname", PyNone)
    ELSE IF IsDict(info) /\ Truthy(Get(info, "name", PyNone))
    THEN Get(info, "name", PyNone)
    ELSE IF raw.t = "str" /\ Truthy(raw) THEN raw
    ELSE PyStr(<<"U", "n", "k", "n", "o", "w", "n">>)

\* C13 (as stated): after a call of insert_departures on an empty table,
\* every stored row carries the priority vehicle name of a departure of the
\* payload, and every departure of the payload has a row carrying its priority
\* vehicle name.
C13_VehicleNamePriority ==
    \A k \in LiveboardIds :
        StoredIntoEmpty(k) =>
            /\ \A i \in 1..Len(departures) :
                  \E j \in 1..Len(PayloadDepartures(k)) :
                      PyEq(departures[i].vehicle_name,
                           PriorityVehicleName(
                               Get(PayloadDepartures(k)[j], "vehicleinfo", PyNone),
                               Get(PayloadDepartures(k)[j], "vehicle", PyNone)))
            /\ \A j \in 1..Len(PayloadDepartures(k)) :
                  \E i \in 1..Len(departures) :
                      PyEq(departures[i].vehicle_name,
                           PriorityVehicleName(
                               Get(PayloadDepartures(k)[j], "vehicleinfo", PyNone),
                               Get(PayloadDepartures(k)[j], "vehicle", PyNone)))

\* C14 (as stated): storing the Brussels-Central liveboard into an empty
\* table leaves one row, named BE.NMBS.IC538, scheduled at 1700000000, actual
\* at 1700000120, not canceled.
C14_ScenarioRow ==
    StoredIntoEmpty(9) =>
        /\ Len(departures) = 1
        /\ PyEq(departures[1].vehicle_name, Get(DepartureScenario, "vehicle", PyNone))
        /\ PyEq(departures[1].scheduled_time, PyDatetime(1700000000))
        /\ PyEq(departures[1].actual_time, PyDatetime(1700000120))
        /\ PyEq(departures[1].is_canceled, PyBool(FALSE))

\* The scheduled time a time field stands for: null when it is missing, zero
\* or no integer, else that epoch second.
ScheduledOf(parsed) ==
    IF parsed.ok /\ parsed.n # 0 THEN PyDatetime(parsed.n) ELSE PyNone

\* The row's times are those of a departure scheduled at scheduled: both
\* null, or the scheduled time and that time plus the row's delay.
TimesAgree(row, scheduled) ==
    /\ PyEq(row.scheduled_time, scheduled)
    /\ IF scheduled.t = "null" THEN row.actual_time.t = "null"
       ELSE PyEq(row.actual_time, PyDatetime(scheduled.v + row.delay_seconds.v))

C16_DelayNonNegative ==
    \A i \in 1..Len(departures) : departures[i].delay_seconds.v >= 0

C18_SecondaryAttempted ==
    (lastCall.op = "get_connection" /\ ~lastCall.pyodbc_available) =>
        /\ lastCall.attempted >= 1
        /\ lastCall.raised =>
              \E i \in 1..Len(lastCall.errors) :
                  ConnectionAttempts(lastCall.listing)[lastCall.errors[i].attempt] = "simple"

\* ------------------------------------------------------------ feed client
\* C19: a call of get_liveboard whose response is a 2xx one never raises:
\* for a body that is no mapping it returns a mapping with an error entry,
\* the requested station id as the station's '@id' and an empty departure
\* list; for a mapping it returns that mapping.
C19_NonMappingBodyRecovered ==
    (lastCall.op = "get_liveboard" /\ RequestException(lastCall.response) = "none") =>
        /\ ~lastCall.raised
        /\ IF IsDict(ParsedBody(lastCall.response))
           THEN lastCall.data = ParsedBody(lastCall.response)
           ELSE /\ IsDict(lastCall.data)
                /\ "error" \in DOMAIN lastCall.data.v
                /\ Get(Get(lastCall.data, "station", EmptyDict), "@id", PyNone)
                       = PyStr(lastCall.station_id)
                /\ Get(Get(lastCall.data, "departures", EmptyDict), "departure", PyNone)
                       = EmptyList

\* The feed answers 200 with a JSON list.
C19_Witness ==
    /\ lastCall.op = "get_liveboard"
    /\ lastCall.response.kind = "http"
    /\ lastCall.response.ok
    /\ ~lastCall.response.dict
    /\ ~lastCall.raised
    /\ IsDict(lastCall.data)

\* C20 (as stated): each feed-client call issues one GET; it raises, with
\* the transport's or the status's exception and without a value, exactly
\* when the transport fails or the status is not 2xx; otherwise it returns the
\* parsed body (get_liveboard: its replacement for a body that is no mapping).
C20_OneGetRaiseOrBody ==
    lastCall.op \in {"get_stations", "get_liveboard", "get_connections"} =>
        /\ Len(lastCall.gets) = 1
        /\ IF RequestException(lastCall.response) # "none"
           THEN /\ lastCall.raised
                /\ lastCall.error = RequestException(lastCall.response)
                /\ lastCall.data.t = "null"
           ELSE /\ ~lastCall.raised
                /\ \/ lastCall.op = "get_liveboard" /\ ~lastCall.response.dict
                   \/ PyEq(lastCall.data, IF lastCall.op = "get_stations"
                                           THEN StationsBody(lastCall.response)
                                           ELSE ParsedBody(lastCall.response))

\* ------------------------------------------------------ liveboard endpoint
\* The request names no station: neither its query nor its body has one.
NoStationSupplied(req) == req.query = <<>> /\ req.body # "station"

\* C21 (as stated): the liveboard endpoint answers 400 'Station ID is
\* required', without a feed call, when the request names no station; 500
\* with status error when the feed call raises; and otherwise 200 with status
\* success and the feed's payload, whatever the database write did.
C21_LiveboardStatus ==
    lastCall.op = "liveboard" =>
        IF NoStationSupplied(lastCall.req)
        THEN /\ lastCall.status_code = 400
             /\ lastCall.message = "Station ID is required"
             /\ ~lastCall.feed_called
        ELSE IF RequestException(lastCall.response) # "none"
        THEN /\ lastCall.status_code = 500
             /\ lastCall.status = "error"
        ELSE /\ lastCall.status_code = 200
             /\ lastCall.status = "success"
             /\ IsDict(lastCall.data)

\* --------------------------------------------------------- concurrent runs
\* C22 (as stated): of two overlapping runs, each run whose initialisation
\* passed and whose audit writes were accepted owns exactly one audit row,
\* every write to an audit row is by the run that owns it, and the counts a
\* run reports are those of its own station outcomes.
C22_OwnAuditRow ==
    /\ \A r \in Runs :
          (Finished(r) /\ run[r].init = "ok" /\ ~run[r].audit_refused) =>
              Cardinality(RowsOwnedBy(r)) = 1
    /\ \A i \in 1..Len(data_factory_logs) :
          \A u \in 1..Len(data_factory_logs[i].updates) :
              data_factory_logs[i].updates[u].by = data_factory_logs[i].owner
    /\ \A r \in Runs :
          Looped(r) =>
              /\ run[r].successful_stations = Count(run[r].outcomes, "inserted")
              /\ Len(run[r].failed_stations) =
                    Count(run[r].outcomes, "feed_raised")
                    + Count(run[r].outcomes, "insert_raised")

\* ---------------------------------------------------- the station loop
\* The entries of failed_stations that name station_id.
FailuresOf(r, station_id) ==
    {i \in 1..Len(run[r].failed_stations) : run[r].failed_stations[i].station = station_id}

C24_SleepBetweenFeedCalls ==
    \A r \in Runs :
        \A i \in 1..(Len(run[r].trace) - 1) :
            ~(IsFeedEvent(run[r].trace[i]) /\ IsFeedEvent(run[r].trace[i + 1]))

\* C27 (as stated): the departures total a manual run reports, and the
\* departures_collected of its audit row, is the number of rows its
\* insert_departures calls inserted.
C27_CountIsRowsInserted ==
    \A r \in Runs :
        (run[r].trigger = "manual" /\ Looped(r)) =>
            /\ run[r].total_departures_processed = run[r].rows_inserted
            /\ (run[r].log_id # 0 /\ ~run[r].audit_refused) =>
                  data_factory_logs[run[r].log_id].departures_collected
                      = run[r].rows_inserted

\* C30 (as stated): at the end of a run, successful stations plus failed
\* stations is the number of configured stations.
C30_EveryStationCounted ==
    \A r \in Runs :
        Looped(r) =>
            run[r].successful_stations + Len(run[r].failed_stations) = NumStations

\* ------------------------------------------------- connection order
\* The strategies in priority order: the descriptor as given, Driver 17 when
\* it is installed, FreeTDS, the descriptor built from the separate values.
PriorityOrder(listing) ==
    IF listing = "with17" THEN <<"original", "driver17", "freetds", "simple">>
    ELSE <<"original", "freetds", "simple">>

\* C25: get_connection tries its strategies in priority order; it returns
\* the handle of the first one that connects and tries none after it, and it
\* raises only after it has tried them all.
C25_PriorityOrderFirstSuccess ==
    (lastCall.op = "get_connection" /\ lastCall.pyodbc_available) =>
        /\ IsPrefix(lastCall.tried, PriorityOrder(lastCall.listing))
        /\ lastCall.raised => lastCall.tried = PriorityOrder(lastCall.listing)
        /\ ~lastCall.raised =>
              /\ lastCall.connection = lastCall.tried[Len(lastCall.tried)]
              /\ lastCall.outcomes[Len(lastCall.tried)] = "ok"
              /\ \A i \in 1..(Len(lastCall.tried) - 1) : lastCall.outcomes[i] # "ok"

\* The descriptor and Driver 17 fail, FreeTDS connects, the last strategy
\* would have connected as well.
C25_Witness ==
    /\ lastCall.op = "get_connection"
    /\ lastCall.pyodbc_available
    /\ lastCall.listing = "with17"
    /\ ~lastCall.raised
    /\ lastCall.connection = "freetds"
    /\ lastCall.tried = <<"original", "driver17", "freetds">>
    /\ lastCall.outcomes[4] = "ok"

\* ---------------------------------------------- skipped departures
\* C26: insert_departures raises only when a handle was refused; a call that
\* returns has committed, and for every departure mapping of its payload the
\* table holds a row of the payload's station at that departure's scheduled
\* time, whatever other entry of the payload was no mapping or was rejected.
C26_BadDepartureSkipped ==
    \A k \in LiveboardIds :
        (lastCall.op = "insert_departures" /\ lastCall.arg = <<k>>) =>
            /\ lastCall.raised => lastCall.commits < lastCall.handles
            /\ (~lastCall.raised /\ Len(PayloadDepartures(k)) >= 1) =>
                  /\ lastCall.commits >= 1
                  /\ \A j \in 1..Len(PayloadDepartures(k)) :
                        \E i \in 1..Len(departures) :
                            /\ PyEq(departures[i].station_uri,
                                    DictGetOrEmpty(Get(Liveboard(k), "station", EmptyDict), "@id"))
                            /\ PyEq(departures[i].scheduled_time,
                                    ScheduledOf(IntOf(Get(PayloadDepartures(k)[j], "time", PyNone))))

\* A payload of two mappings around an entry that is a string.
C26_Witness ==
    /\ StoredIntoEmpty(5)
    /\ Len(DepartureList(Liveboard(5))) = 3
    /\ lastCall.executes = 4
    /\ lastCall.commits = 2
    /\ Len(departures) >= 2

\* ------------------------------------------------------ session pool
\* The keys a sweep that took the clock at current_time has to remove.
IdleTooLong(last_used, current_time) ==
    {sid \in DOMAIN last_used : current_time - last_used[sid] > max_age}

\* C28: whenever no call holds the lock the pool and the last-used map have
\* the same keys and every pooled session is open and belongs to its key's
\* thread; no thread ever owns two open sessions; and a sweep has closed and
\* removed exactly the sessions idle for longer than the threshold when it
\* took the time, leaving every other entry as it was.
C28_PoolConsistentSweepExact ==
    /\ connection_pool.lock = 0 =>
          /\ DOMAIN connection_pool.pool = DOMAIN connection_pool.last_used
          /\ \A t \in DOMAIN connection_pool.pool :
                /\ connection_pool.pool[t][1] = t
                /\ connection_pool.pool[t][2] \in 1..Len(sessions[t])
                /\ sessions[t][connection_pool.pool[t][2]].open
    /\ \A t \in Threads : \A i, j \in 1..Len(sessions[t]) :
          (sessions[t][i].open /\ sessions[t][j].open) => i = j
    /\ lastCall.op = "cleanup_old_sessions" =>
          /\ DOMAIN lastCall.pool_before = DOMAIN lastCall.before
          /\ DOMAIN lastCall.after =
                 DOMAIN lastCall.before \ IdleTooLong(lastCall.before, lastCall.current_time)
          /\ DOMAIN lastCall.last_used_after = DOMAIN lastCall.after
          /\ \A sid \in DOMAIN lastCall.after :
                /\ lastCall.after[sid] = lastCall.pool_before[sid]
                /\ lastCall.last_used_after[sid] = lastCall.before[sid]
          /\ lastCall.closed =
                 {lastCall.pool_before[sid] :
                      sid \in IdleTooLong(lastCall.before, lastCall.current_time)}
          /\ \A h \in lastCall.closed : ~sessions[h[1]][h[2]].open

\* A sweep run by one thread closed another thread's idle session and kept
\* its own.
C28_Witness ==
    /\ lastCall.op = "cleanup_old_sessions"
    /\ lastCall.closed # {}
    /\ lastCall.thread \in DOMAIN lastCall.after
    /\ \E t \in Threads : t # lastCall.thread /\ t \in DOMAIN lastCall.before
                          /\ t \notin DOMAIN lastCall.after
    /\ connection_pool.lock = 0

\* ------------------------------------------------- the two collectors
\* C29: a manual run and a timer run that have ended, over a configured
\* database, with the same result of initialize_tables and the same answers
\* of the feed and of the database to the loop's calls, made the same
\* sequence of feed calls, inserts and sleeps and hold the same
\* successful_stations, failed_stations and total_departures_processed.
C29_ManualEqualsTimer ==
    \A m, t \in Runs :
        (/\ run[m].pc = "done" /\ run[m].trigger = "manual"
         /\ run[t].pc = "done" /\ run[t].trigger = "timer"
         /\ db_manager
         /\ run[m].init = run[t].init
         /\ run[m].received = run[t].received) =>
            /\ run[m].trace = run[t].trace
            /\ run[m].outcomes = run[t].outcomes
            /\ run[m].successful_stations = run[t].successful_stations
            /\ run[m].failed_stations = run[t].failed_stations
            /\ run[m].total_departures_processed = run[t].total_departures_processed

\* Both runs polled two stations: the feed failed for the first, the second
\* was stored.
C29_Witness ==
    /\ run[1].pc = "done" /\ run[1].trigger = "manual"
    /\ run[2].pc = "done" /\ run[2].trigger = "timer"
    /\ run[1].received = run[2].received
    /\ run[2].outcomes = <<"feed_raised", "inserted">>
    /\ Len(run[2].failed_stations) = 1
    /\ run[2].successful_stations = 1
    /\ run[2].total_departures_processed > 0

====
